---------------------------- MODULE Spec2Model ----------------------------
(***************************************************************************)
(* A model of the invoice pipeline of src/src/pdf-extractor/init.py:       *)
(* PDFExtractor.start and the table operations it calls                    *)
(* (clean_and_correct_header, filter_until_subtotal,                       *)
(* tratar_valores_monetarios, calculate_cip_percentage, save_csv) and the  *)
(* per-file loop of __main__.                                              *)
(*                                                                         *)
(* A DataFrame is a record [columns, index, data]: the column names, the   *)
(* row labels and the rows (each a sequence of cells).  A cell is          *)
(*   [kind |-> "str", s |-> text]      a text cell (TLA+ string),          *)
(*   [kind |-> "nan"]                  a missing value (NaN / None in a    *)
(*                                     value position),                    *)
(*   [kind |-> "num", num, den]        a number num/den (exact rational:   *)
(*                                     binary rounding is not modelled),   *)
(*   [kind |-> "none"]                 Python None (percentual_cip unset). *)
(***************************************************************************)
EXTENDS Integers, Sequences, FiniteSets, TLC

VARIABLES
    files,          \* __main__: the list returned by list_files
    tables,         \* what camelot.read_pdf finds in each file's PDF
    i,              \* __main__: position of the for loop in files
    pc,             \* position inside __main__ / start()
    header,         \* start(): the local `header`
    corrected_df,   \* start(): the local `corrected_df`
    filtered_df,    \* start(): the local `filtered_df`
    stages,         \* per file: the methods start() has called so far
    csv,            \* files/csv/<name>.csv: the table written, or NoCsv
    log,            \* the logging records emitted so far
    error,          \* the exception that left start() uncaught, or "none"
    valores,        \* per file: the values calculate_cip_percentage computed
    call,           \* direct call: the method and its arguments
    ret             \* direct call: what the method returned or raised

vars == <<files, tables, i, pc, header, corrected_df, filtered_df, stages,
          csv, log, error, valores, call, ret>>

---------------------------------------------------------------------------
(* Bounds of the model.                                                    *)

NumFiles == 3
MaxRows == 3
MaxTextLen == 3

---------------------------------------------------------------------------
(* Python str / pandas .str operations on text.                            *)

UpperChars == "ABCDEFGHIJKLMNOPQRSTUVWXYZ"
LowerChars == "abcdefghijklmnopqrstuvwxyz"

Char(s, k) == SubSeq(s, k, k)

\* The lower-case letter of every upper-case letter.
LowerOf ==
    [c \in {Char(UpperChars, k) : k \in 1..Len(UpperChars)} |->
        Char(LowerChars, CHOOSE k \in 1..Len(UpperChars) : Char(UpperChars, k) = c)]

LowerChar(c) == IF c \in DOMAIN LowerOf THEN LowerOf[c] ELSE c

RECURSIVE Lower(_)
Lower(s) == IF s = "" THEN "" ELSE LowerChar(Head(s)) \o Lower(Tail(s))

\* `pat in s` for a literal pattern.
Contains(s, pat) ==
    \E k \in 1..(Len(s) - Len(pat) + 1) : SubSeq(s, k, k + Len(pat) - 1) = pat

\* Series.str.contains(pat, case=False) on one text, pat a literal.
ContainsNoCase(s, pat) == Contains(Lower(s), Lower(pat))

\* str.replace(old, new) for a one-character `old`.
RECURSIVE Replace(_, _, _)
Replace(s, old, new) ==
    IF s = "" THEN ""
    ELSE (IF Head(s) = old THEN new ELSE Head(s)) \o Replace(Tail(s), old, new)

RECURSIVE LStrip(_)
LStrip(s) == IF s # "" /\ Head(s) = " " THEN LStrip(Tail(s)) ELSE s

RECURSIVE RStrip(_)
RStrip(s) ==
    IF s # "" /\ Char(s, Len(s)) = " " THEN RStrip(SubSeq(s, 1, Len(s) - 1)) ELSE s

\* str.strip()
Strip(s) == RStrip(LStrip(s))

---------------------------------------------------------------------------
(* Numbers: exact rationals num/den with den > 0, in lowest terms.         *)

Abs(n) == IF n < 0 THEN -n ELSE n

RECURSIVE Gcd(_, _)
Gcd(a, b) == IF b = 0 THEN a ELSE Gcd(b, a % b)

Rat(n, d) ==
    LET g == Gcd(Abs(n), Abs(d))
        sg == IF d < 0 THEN -1 ELSE 1
    IN  [kind |-> "num", num |-> (sg * n) \div g, den |-> (sg * d) \div g]

NaN == [kind |-> "nan"]
None == [kind |-> "none"]
Str(s) == [kind |-> "str", s |-> s]
Zero == Rat(0, 1)

RatAdd(x, y) == Rat(x.num * y.den + y.num * x.den, x.den * y.den)
RatNeg(x) == IF x.kind = "nan" THEN NaN ELSE Rat(-x.num, x.den)
RatPositive(x) == x.num > 0

Digits == "0123456789"
IsDigit(c) == \E k \in 1..Len(Digits) : Char(Digits, k) = c
DigitVal(c) == (CHOOSE k \in 1..Len(Digits) : Char(Digits, k) = c) - 1

RECURSIVE AllDigits(_)
AllDigits(s) == s = "" \/ (IsDigit(Head(s)) /\ AllDigits(Tail(s)))

RECURSIVE DigitsToInt(_)
DigitsToInt(s) ==
    IF s = "" THEN 0
    ELSE 10 * DigitsToInt(SubSeq(s, 1, Len(s) - 1)) + DigitVal(Char(s, Len(s)))

RECURSIVE Pow10(_)
Pow10(n) == IF n = 0 THEN 1 ELSE 10 * Pow10(n - 1)

\* pd.to_numeric(text, errors='coerce') on one text made of digits, ".",
\* spaces and other characters without meaning in a number (no sign, no
\* exponent, no "inf"/"nan" word reaches it here): surrounding whitespace is
\* skipped, then digits [ "." digits ] with at least one digit is a number;
\* anything else is coerced to NaN.
to_numeric(text) ==
    LET t == Strip(text)
        dots == {k \in 1..Len(t) : Char(t, k) = "."}
    IN  IF dots = {}
        THEN IF t # "" /\ AllDigits(t) THEN Rat(DigitsToInt(t), 1) ELSE NaN
        ELSE LET p == CHOOSE k \in dots : \A m \in dots : k <= m
                 ip == SubSeq(t, 1, p - 1)
                 fp == SubSeq(t, p + 1, Len(t))
             IN  IF AllDigits(ip) /\ AllDigits(fp) /\ Len(ip) + Len(fp) > 0
                 THEN Rat(DigitsToInt(ip \o fp), Pow10(Len(fp)))
                 ELSE NaN

---------------------------------------------------------------------------
(* DataFrame operations of pandas used by the code.                        *)

Min(S) == CHOOSE m \in S : \A n \in S : m <= n

\* The elements of seq at the positions in S, in order.
SubseqByPos(seq, S) ==
    LET F[k \in 0..Len(seq)] ==
            IF k = 0 THEN <<>>
            ELSE IF k \in S THEN Append(F[k - 1], seq[k]) ELSE F[k - 1]
    IN  F[Len(seq)]

\* df[mask] / df.iloc[positions]: the rows at the positions in S.
Rows(df, S) ==
    [columns |-> df.columns,
     index   |-> SubseqByPos(df.index, S),
     data    |-> SubseqByPos(df.data, S)]

NRows(df) == Len(df.data)

\* df.reset_index(drop=True): the labels become 0..n-1.
reset_index(df) == [df EXCEPT !.index = [k \in 1..NRows(df) |-> k - 1]]

\* value.astype(str) of a text or missing cell.
AsStr(c) == IF c.kind = "nan" THEN "nan" ELSE c.s

\* row.astype(str).str.contains(p1|p2|..., case=False).any() for the literal
\* alternatives in pats.
RowContains(row, pats) ==
    \E c \in 1..Len(row) : \E p \in pats : ContainsNoCase(AsStr(row[c]), p)

\* df.dropna(how="all"): drops the rows whose cells are all missing.
dropna_all(df) ==
    Rows(df, {k \in 1..NRows(df) :
                 \E c \in 1..Len(df.data[k]) : df.data[k][c].kind # "nan"})

\* .any(axis=1) in place of .all(axis=1): one present cell is enough.
AnyNotNull(df, k) == \E c \in 1..Len(df.data[k]) : df.data[k][c].kind # "nan"

\* df.notnull().all(axis=1) of the row at position k.
AllNotNull(df, k) == \A c \in 1..Len(df.data[k]) : df.data[k][c].kind # "nan"

\* df.loc[:last] on an increasing integer index: label slices are inclusive
\* and a bound that is no label selects up to where it would be inserted.
loc_upto(df, last) == Rows(df, {k \in 1..NRows(df) : df.index[k] <= last})

HasCol(df, name) == \E c \in 1..Len(df.columns) : df.columns[c] = name
ColPos(df, name) == CHOOSE c \in 1..Len(df.columns) : df.columns[c] = name

---------------------------------------------------------------------------
(* PDFExtractor.filter_until_subtotal                                      *)

SubtotalMarker == "Subtotal Faturamento"

\* The rows strictly after the marker row are kept too: the slice bound of
\* pdf_viz.py's commented draft, df.loc[:total_index], off by one.
filter_until_subtotal_inclusive(df) ==
    LET subtotal_index ==
            SubseqByPos(df.index, {k \in 1..NRows(df) :
                                      RowContains(df.data[k], {SubtotalMarker})})
    IN  IF Len(subtotal_index) # 0
        THEN loc_upto(df, subtotal_index[1])
        ELSE df

filter_until_subtotal(df) ==
    LET subtotal_index ==
            SubseqByPos(df.index, {k \in 1..NRows(df) :
                                      RowContains(df.data[k], {SubtotalMarker})})
    IN  IF Len(subtotal_index) # 0
        THEN loc_upto(df, subtotal_index[1] - 1)
        ELSE df

---------------------------------------------------------------------------
(* PDFExtractor.clean_and_correct_header                                   *)

expected_header ==
    << "Itens_de_Fatura", "Unid", "Quant", "Preço_unit_(R$)_com_tributos",
       "Valor_(R$)", "PIS/COFINS", "Base_Calc_ICMS_(R$)", "Alíquota_ICMS",
       "ICMS", "Tarifa_unit_(R$)" >>

\* The last alternative of the pattern left out.
NoisePatternsWithoutICMS == {";;;", "com tributos"}

\* ';;;|com tributos|ICMS'
NoisePatterns == {";;;", "com tributos", "ICMS"}

\* range(first_valid_index): the header row itself stays in the table.
drop_above_only(df, first_valid_index) ==
    Rows(df, {k \in 1..NRows(df) : df.index[k] \notin 0..(first_valid_index - 1)})

\* df.drop(range(first_valid_index + 1))
drop_upto(df, first_valid_index) ==
    Rows(df, {k \in 1..NRows(df) : df.index[k] \notin 0..first_valid_index})

\* The fixed names assigned only when the detected row lacks the value
\* field; otherwise the detected row's own texts stay the column names.
corrected_columns_if_absent(row) ==
    IF \E c \in 1..Len(row) : row[c] = "Valor_(R$)" THEN row ELSE expected_header

\* The column names after df.columns = df.iloc[first_valid_index] (`row`)
\* and then df.columns = expected_header.
corrected_columns(row) == expected_header

\* Raises IndexError when no row is free of missing values, ValueError
\* (length mismatch) when the grid does not have as many columns as names
\* are assigned; otherwise returns the cleaned table.
clean_and_correct_header(df) ==
    LET d1 == reset_index(dropna_all(df))
        valid == {k \in 1..NRows(d1) : AllNotNull(d1, k)}
    IN  IF valid = {}
        THEN [status |-> "IndexError"]
        ELSE LET first_valid_index == d1.index[Min(valid)]
                 row == [c \in 1..Len(d1.data[Min(valid)]) |->
                            AsStr(d1.data[Min(valid)][c])]
                 d2 == drop_upto([d1 EXCEPT !.columns = row], first_valid_index)
                 names == corrected_columns(row)
             IN  IF Len(names) # Len(d2.columns)
                 THEN [status |-> "ValueError"]
                 ELSE LET d3 == [d2 EXCEPT !.columns = names]
                          d4 == Rows(d3, {k \in 1..NRows(d3) :
                                    ~RowContains(d3.data[k], NoisePatterns)})
                      IN  [status |-> "ok", df |-> reset_index(d4)]

---------------------------------------------------------------------------
(* PDFExtractor.tratar_valores_monetarios                                  *)

\* errors='coerce' forgotten in favour of a default: text that is no number
\* becomes 0 instead of NaN.
tratar_valor_fill_zero(x) ==
    LET v == IF Contains(x, "-")
             THEN RatNeg(to_numeric(Replace(Replace(x, "-", ""), ",", ".")))
             ELSE to_numeric(Replace(x, ",", "."))
    IN  IF v.kind = "nan" THEN Zero ELSE v

\* The lambda applied to every (stripped) text of the column.
tratar_valor(x) ==
    IF Contains(x, "-")
    THEN RatNeg(to_numeric(Replace(Replace(x, "-", ""), ",", ".")))
    ELSE to_numeric(Replace(x, ",", "."))

\* df[coluna] raises KeyError when the column is absent.
tratar_valores_monetarios(df, coluna) ==
    IF ~HasCol(df, coluna)
    THEN [status |-> "KeyError"]
    ELSE [status |-> "ok",
          df |-> [df EXCEPT !.data =
                    [k \in 1..NRows(df) |->
                        [df.data[k] EXCEPT ![ColPos(df, coluna)] =
                            tratar_valor(Strip(AsStr(@)))]]]]

---------------------------------------------------------------------------
(* PDFExtractor.calculate_cip_percentage                                   *)

LabelTE == "Energia Ativa Fornecida TE"
LabelTUSD == "Energia Ativa Fornecida TUSD"
LabelCIP == "CIP ILUM PUB PREF MUNICIPAL"

ItemCell(df, k) == df.data[k][ColPos(df, "Itens_de_Fatura")]
ValueCell(df, k) == df.data[k][ColPos(df, "Valor_(R$)")]

\* df['Itens_de_Fatura'].str.contains(label, case=False) at position k.
IsMatch(df, k, label) == ContainsNoCase(ItemCell(df, k).s, label)

\* df[<rows matching label>]['Valor_(R$)'].sum(): NaN is skipped, the empty
\* sum is 0.
SumValues(df, label) ==
    LET F[k \in 0..NRows(df)] ==
            IF k = 0 THEN Zero
            ELSE IF IsMatch(df, k, label) /\ ValueCell(df, k).kind = "num"
                 THEN RatAdd(F[k - 1], ValueCell(df, k))
                 ELSE F[k - 1]
    IN  F[NRows(df)]

\* The guard written as `!= 0`: a negative total is divided by.
percentual_nonzero(valor_cip, valor_total) ==
    IF valor_total.num # 0
    THEN Rat(valor_cip.num * valor_total.den * 100, valor_cip.den * valor_total.num)
    ELSE Zero

\* (valor_cip / valor_total) * 100 if valor_total > 0 else 0
percentual(valor_cip, valor_total) ==
    IF RatPositive(valor_total)
    THEN Rat(valor_cip.num * valor_total.den * 100, valor_cip.den * valor_total.num)
    ELSE Zero

\* The mask of the TE label used for the assignment: the percentage lands
\* on the wrong rows.
stamp_te_rows(df, percentual_cip) ==
    [columns |-> Append(df.columns, "percentual_cip"),
     index   |-> df.index,
     data    |-> [k \in 1..NRows(df) |->
                    Append(df.data[k],
                           IF IsMatch(df, k, LabelTE)
                           THEN percentual_cip ELSE None)]]

\* df['percentual_cip'] = None; df.loc[<CIP rows>, 'percentual_cip'] = value
stamp(df, percentual_cip) ==
    [columns |-> Append(df.columns, "percentual_cip"),
     index   |-> df.index,
     data    |-> [k \in 1..NRows(df) |->
                    Append(df.data[k],
                           IF IsMatch(df, k, LabelCIP)
                           THEN percentual_cip ELSE None)]]

\* Raises KeyError when a column it reads is absent and ValueError when a
\* line-item cell is missing (pandas refuses a mask that contains NaN).
calculate_cip_percentage(df) ==
    LET t == tratar_valores_monetarios(df, "Valor_(R$)")
    IN  IF t.status # "ok" THEN [status |-> t.status]
        ELSE IF ~HasCol(t.df, "Itens_de_Fatura") THEN [status |-> "KeyError"]
        ELSE IF \E k \in 1..NRows(t.df) : ItemCell(t.df, k).kind = "nan"
             THEN [status |-> "ValueError"]
        ELSE LET d == t.df
                 valor_te == SumValues(d, LabelTE)
                 valor_tusd == SumValues(d, LabelTUSD)
                 valor_total == RatAdd(valor_te, valor_tusd)
                 valor_cip == SumValues(d, LabelCIP)
                 percentual_cip == percentual(valor_cip, valor_total)
             IN  [status |-> "ok",
                  df |-> stamp(d, percentual_cip),
                  valor_te |-> valor_te,
                  valor_tusd |-> valor_tusd,
                  valor_total |-> valor_total,
                  valor_cip |-> valor_cip,
                  percentual_cip |-> percentual_cip]

---------------------------------------------------------------------------
(* The tables the model is run on.                                         *)

\* A row of w cells: the line item in column 1, the value in column 5 and
\* `other` in every other column (cells, so that any of them may be missing).
MkRow(item, value, other, w) ==
    [c \in 1..w |-> IF c = 1 THEN item ELSE IF c = 5 THEN value ELSE other]

Width == Len(expected_header)

\* A raw grid as camelot returns it: columns and rows labelled from 0.
MkGrid(rows, w) ==
    [columns |-> [c \in 1..w |-> c - 1],
     index   |-> [k \in 1..Len(rows) |-> k - 1],
     data    |-> rows]

\* A table under the canonical header, rows labelled from 0.
MkTable(rows) ==
    [columns |-> expected_header,
     index   |-> [k \in 1..Len(rows) |-> k - 1],
     data    |-> rows]

RowTE100 == MkRow(Str("Energia Ativa Fornecida TE"), Str("100,00"), Str("kWh"), Width)
RowTUSD50 == MkRow(Str("Energia Ativa Fornecida TUSD"), Str("50,00"), Str("kWh"), Width)
RowCIP15 == MkRow(Str("CIP ILUM PUB PREF MUNICIPAL"), Str("15,00"), Str(""), Width)
RowSubtotal == MkRow(Str("Subtotal Faturamento total"), Str("165,00"), Str(""), Width)
RowHeader == [c \in 1..Width |-> Str(expected_header[c])]

\* Rows of raw grids of width w.
RawRows(w) ==
    { MkRow(NaN, NaN, NaN, w),                                   \* all missing
      MkRow(Str("DESCRICAO DO FATURAMENTO"), NaN, NaN, w),       \* partly missing
      MkRow(Str(""), Str(""), Str("x"), w),                      \* empty texts
      MkRow(Str("Itens de Fatura"), Str("Valor_(R$)"), Str("Unid"), w),
      MkRow(Str("Itens_de_Fatura"), Str("Valor (R$)"), Str("Base Calc Icms"), w),
      MkRow(Str("Energia Ativa Fornecida TE"), Str("100,00"), Str("kWh"), w),
      MkRow(Str("CIP ILUM PUB PREF MUNICIPAL"), Str("15,00"), NaN, w),
      MkRow(Str("Preco unit COM TRIBUTOS"), Str(""), Str(";;;"), w) }

Widths == {Width - 1, Width, Width + 1}

\* Rows of the tables handed to filter_until_subtotal.
TrimRows ==
    { RowTE100,
      RowCIP15,
      RowSubtotal,
      MkRow(Str("Outros"), Str("1,00"), Str("SUBTOTAL FATURAMENTO"), Width),
      MkRow(Str("Subtotal"), Str("Faturamento"), Str(""), Width),
      MkRow(Str("Juros"), NaN, NaN, Width) }

\* Rows of the tables handed to calculate_cip_percentage.
CalcRows ==
    { RowTE100,
      MkRow(Str("energia ativa fornecida te 2"), Str("50,00"), Str(""), Width),
      MkRow(Str("Energia Ativa Fornecida TE"), Str("n/d"), Str(""), Width),
      RowTUSD50,
      MkRow(Str("ENERGIA ATIVA FORNECIDA TUSD"), Str("200,00-"), Str(""), Width),
      RowCIP15,
      MkRow(Str("Cip Ilum Pub Pref Municipal"), Str("7,50"), Str(""), Width),
      MkRow(Str("Energia Ativa Fornecida"), Str("10,00"), Str(""), Width) }

\* Texts of monetary cells, each tried in a table of one row: every text of
\* at most MaxTextLen characters over MoneyChars, and the examples below.
MoneyChars == {"1", "0", ",", ".", "-", " "}

RECURSIVE TextsUpTo(_)
TextsUpTo(n) ==
    IF n = 0 THEN {""}
    ELSE TextsUpTo(n - 1) \cup {t \o c : t \in TextsUpTo(n - 1), c \in MoneyChars}

MoneyExamples ==
    { "1.234,56", "105,47-", "0,00", " 12,50 ", "1.000", "1.000,5-",
      "12.345.678,90", "R$ 5,00", "n/d", "1 000,00", "-3,20" }

MoneyTexts == TextsUpTo(MaxTextLen) \cup MoneyExamples

\* The one-row table whose value cell holds `text`.
MoneyTable(text) == MkTable(<<MkRow(Str("Item"), Str(text), Str(""), Width)>>)

Colunas == {"Valor_(R$)", "Valor"}

\* What camelot finds in a PDF: no table (None) or one of these grids.
GridInvoice == MkGrid(<<RowHeader, RowTE100, RowTUSD50, RowCIP15, RowSubtotal, RowCIP15>>, Width)
GridNoMarker == MkGrid(<<MkRow(Str("x"), NaN, NaN, Width), RowHeader, RowTE100, RowHeader, RowCIP15>>, Width)
GridNoFullRow == MkGrid(<<MkRow(Str("x"), NaN, NaN, Width), MkRow(NaN, NaN, NaN, Width)>>, Width)
GridEmpty == MkGrid(<<>>, Width)
GridNarrow == MkGrid(<<MkRow(Str("a"), Str("b"), Str("c"), Width - 1)>>, Width - 1)
GridMissingItem == MkGrid(<<RowHeader, MkRow(NaN, Str("1,00"), Str(""), Width)>>, Width)
GridCipAfterMarker == MkGrid(<<RowHeader, RowTE100, RowTUSD50, RowSubtotal, RowCIP15, RowTE100>>, Width)
GridMarkerFirst == MkGrid(<<RowHeader, RowSubtotal, RowTE100, RowTUSD50, RowCIP15>>, Width)

PdfTables ==
    {None, GridInvoice, GridNoMarker, GridNoFullRow, GridEmpty, GridNarrow, GridMissingItem,
     GridCipAfterMarker, GridMarkerFirst}

---------------------------------------------------------------------------
(* __main__ and PDFExtractor.start, one step per statement that calls a    *)
(* method.  pc: "main" (the for statement), "start", "no_table", "clean",  *)
(* "filter", "calc", "save" (inside start()), "done" (the script ended),   *)
(* "raised" (an exception left start() and, uncaught, ended the script).   *)

FileIds == 1..NumFiles

Logged(level, file, msg) == Append(log, [level |-> level, file |-> file, msg |-> msg])

NoCall == [fn |-> "none"]
NoRet == [status |-> "none"]

Init ==
    /\ files = [k \in FileIds |-> k]
    /\ tables \in [FileIds -> PdfTables]
    /\ i = 1
    /\ pc = "main"
    /\ header = None
    /\ corrected_df = None
    /\ filtered_df = None
    /\ stages = [f \in FileIds |-> {}]
    /\ csv = [f \in FileIds |-> None]
    /\ log = <<>>
    /\ error = "none"
    /\ valores = [f \in FileIds |-> None]
    /\ call = NoCall
    /\ ret = NoRet

\* for file in files: extractor = PDFExtractor(file, ...); extractor.start()
ForNext ==
    /\ pc = "main"
    /\ i <= Len(files)
    /\ pc' = "start"
    /\ header' = None
    /\ corrected_df' = None
    /\ filtered_df' = None
    /\ log' = Logged("info", files[i], "Start pdf")
    /\ UNCHANGED <<files, tables, i, stages, csv, error, call, ret, valores>>

\* The loop is exhausted: logging.info("Todos os arquivos foram processados")
ForEnd ==
    /\ pc = "main"
    /\ i > Len(files)
    /\ pc' = "done"
    /\ log' = Logged("info", 0, "Todos os arquivos foram processados")
    /\ UNCHANGED <<files, tables, i, header, corrected_df, filtered_df, stages,
                   csv, error, call, ret, valores>>

\* header = self.get_table_data(...): tables[0].df, or None with a warning.
get_table_data ==
    /\ pc = "start"
    /\ header' = tables[files[i]]
    /\ stages' = [stages EXCEPT ![files[i]] = @ \cup {"get_table_data"}]
    /\ IF tables[files[i]] = None
       THEN /\ log' = Logged("warning", files[i], "Nenhuma tabela encontrada")
            /\ pc' = "no_table"
       ELSE /\ log' = log
            /\ pc' = "clean"
    /\ UNCHANGED <<files, tables, i, corrected_df, filtered_df, csv, error, call, ret, valores>>

\* The else branch raising instead of returning: the script ends at the
\* first file without a table.
StartNoTableRaises ==
    /\ pc = "no_table"
    /\ log' = Logged("error", files[i], "Erro ao processar o arquivo")
    /\ error' = "ValueError"
    /\ pc' = "raised"
    /\ UNCHANGED <<files, tables, i, header, corrected_df, filtered_df, stages, csv,
                   call, ret, valores>>

\* The else branch of `if header is not None`: logging.error, start() returns.
StartNoTable ==
    /\ pc = "no_table"
    /\ log' = Logged("error", files[i], "Erro ao processar o arquivo")
    /\ i' = i + 1
    /\ pc' = "main"
    /\ UNCHANGED <<files, tables, header, corrected_df, filtered_df, stages, csv,
                   error, call, ret, valores>>

\* corrected_df = self.clean_and_correct_header(header)
StartClean ==
    /\ pc = "clean"
    /\ stages' = [stages EXCEPT ![files[i]] = @ \cup {"clean_and_correct_header"}]
    /\ LET r == clean_and_correct_header(header)
       IN  IF r.status = "ok"
           THEN /\ corrected_df' = r.df
                /\ pc' = "filter"
                /\ error' = error
           ELSE /\ corrected_df' = corrected_df
                /\ pc' = "raised"
                /\ error' = r.status
    /\ UNCHANGED <<files, tables, i, header, filtered_df, csv, log, call, ret, valores>>

\* filtered_df = self.filter_until_subtotal(corrected_df)
StartFilter ==
    /\ pc = "filter"
    /\ stages' = [stages EXCEPT ![files[i]] = @ \cup {"filter_until_subtotal"}]
    /\ filtered_df' = filter_until_subtotal(corrected_df)
    /\ pc' = "calc"
    /\ UNCHANGED <<files, tables, i, header, corrected_df, csv, log, error, call, ret, valores>>

\* The sums and the percentage calculate_cip_percentage computes and prints.
Valores(r) ==
    [valor_te |-> r.valor_te, valor_tusd |-> r.valor_tusd,
     valor_total |-> r.valor_total, valor_cip |-> r.valor_cip,
     percentual_cip |-> r.percentual_cip]

\* The calculator handed corrected_df, the table as it was before the
\* trimming: the result of filter_until_subtotal is not used.
StartCalcUntrimmed ==
    /\ pc = "calc"
    /\ stages' = [stages EXCEPT ![files[i]] = @ \cup {"calculate_cip_percentage"}]
    /\ LET r == calculate_cip_percentage(corrected_df)
       IN  IF r.status = "ok"
           THEN /\ filtered_df' = r.df
                /\ valores' = [valores EXCEPT ![files[i]] = Valores(r)]
                /\ pc' = "save"
                /\ error' = error
           ELSE /\ filtered_df' = filtered_df
                /\ valores' = valores
                /\ pc' = "raised"
                /\ error' = r.status
    /\ UNCHANGED <<files, tables, i, header, corrected_df, csv, log, call, ret>>

\* filtered_df = self.calculate_cip_percentage(filtered_df)
StartCalc ==
    /\ pc = "calc"
    /\ stages' = [stages EXCEPT ![files[i]] = @ \cup {"calculate_cip_percentage"}]
    /\ LET r == calculate_cip_percentage(filtered_df)
       IN  IF r.status = "ok"
           THEN /\ filtered_df' = r.df
                /\ valores' = [valores EXCEPT ![files[i]] = Valores(r)]
                /\ pc' = "save"
                /\ error' = error
           ELSE /\ filtered_df' = filtered_df
                /\ valores' = valores
                /\ pc' = "raised"
                /\ error' = r.status
    /\ UNCHANGED <<files, tables, i, header, corrected_df, csv, log, call, ret>>

\* logging.info("Saving csv"); self.save_csv(filtered_df, self.file_name);
\* start() returns.  The serialisation of the table is not modelled: csv
\* holds the table as it was handed to to_csv.
save_csv ==
    /\ pc = "save"
    /\ stages' = [stages EXCEPT ![files[i]] = @ \cup {"save_csv"}]
    /\ log' = Logged("info", files[i], "Saving csv")
    /\ csv' = [csv EXCEPT ![files[i]] = filtered_df]
    /\ i' = i + 1
    /\ pc' = "main"
    /\ UNCHANGED <<files, tables, header, corrected_df, filtered_df, error, call, ret, valores>>

Next ==
    \/ ForNext
    \/ ForEnd
    \/ get_table_data
    \/ StartNoTable
    \/ StartClean
    \/ StartFilter
    \/ StartCalc
    \/ save_csv

Spec == Init /\ [][Next]_vars

---------------------------------------------------------------------------
(* The methods called directly, each once, on the tables above.            *)

InitCalls ==
    /\ files = <<>>
    /\ tables = <<>>
    /\ i = 1
    /\ pc = "call"
    /\ header = None
    /\ corrected_df = None
    /\ filtered_df = None
    /\ stages = <<>>
    /\ csv = <<>>
    /\ log = <<>>
    /\ error = "none"
    /\ valores = <<>>
    /\ call = NoCall
    /\ ret = NoRet

Returned ==
    /\ pc' = "returned"
    /\ UNCHANGED <<files, tables, i, header, corrected_df, filtered_df, stages,
                   csv, log, error, valores>>

CallClean ==
    /\ pc = "call"
    /\ \E w \in Widths, n \in 0..MaxRows : \E rows \in [1..n -> RawRows(w)] :
          /\ call' = [fn |-> "clean_and_correct_header", df |-> MkGrid(rows, w)]
          /\ ret' = clean_and_correct_header(MkGrid(rows, w))
    /\ Returned

CallFilter ==
    /\ pc = "call"
    /\ \E n \in 0..MaxRows : \E rows \in [1..n -> TrimRows] :
          /\ call' = [fn |-> "filter_until_subtotal", df |-> MkTable(rows)]
          /\ ret' = [status |-> "ok", df |-> filter_until_subtotal(MkTable(rows))]
    /\ Returned

CallTratar ==
    /\ pc = "call"
    /\ \E text \in MoneyTexts, coluna \in Colunas :
          /\ call' = [fn |-> "tratar_valores_monetarios", df |-> MoneyTable(text),
                      coluna |-> coluna]
          /\ ret' = tratar_valores_monetarios(MoneyTable(text), coluna)
    /\ Returned

CallCalc ==
    /\ pc = "call"
    /\ \E n \in 0..MaxRows : \E rows \in [1..n -> CalcRows] :
          /\ call' = [fn |-> "calculate_cip_percentage", df |-> MkTable(rows)]
          /\ ret' = calculate_cip_percentage(MkTable(rows))
    /\ Returned

NextCalls == CallClean \/ CallFilter \/ CallTratar \/ CallCalc

SpecCalls == InitCalls /\ [][NextCalls]_vars

---------------------------------------------------------------------------
(* Properties.  Those about one method are stated on its direct calls      *)
(* (SpecCalls): `call` holds the arguments, `ret` the result.              *)

CalledFilter == call.fn = "filter_until_subtotal"
CalledClean == call.fn = "clean_and_correct_header"
CalledTratar == call.fn = "tratar_valores_monetarios"
CalledCalc == call.fn = "calculate_cip_percentage"

\* A text cell that contains `text`, whatever the case of its letters.
CellHas(cell, text) == cell.kind = "str" /\ ContainsNoCase(cell.s, text)
RowHas(row, text) == \E c \in 1..Len(row) : CellHas(row[c], text)

\* The positions of the marker rows of the table handed to the trimmer.
MarkerRows == {k \in 1..NRows(call.df) : RowHas(call.df.data[k], "Subtotal Faturamento")}

\* C1: filter_until_subtotal on a table labelled 0..n-1: when some row has a
\* cell containing "Subtotal Faturamento" (any case), the output is exactly
\* the rows strictly before the first such row, in order (none when it is
\* the first row), so it holds neither the marker row nor a row after it;
\* when no row matches, the output is the input.
C1_SubtotalTrimmer ==
    CalledFilter =>
        IF MarkerRows = {}
        THEN ret.df = call.df
        ELSE /\ ret.df.data = SubSeq(call.df.data, 1, Min(MarkerRows) - 1)
             /\ ret.df.index = SubSeq(call.df.index, 1, Min(MarkerRows) - 1)
             /\ ret.df.columns = call.df.columns
             /\ \A k \in 1..NRows(ret.df) : ~RowHas(ret.df.data[k], "Subtotal Faturamento")

\* A call where rows precede the first marker row and rows follow it.
C1_Witness ==
    /\ CalledFilter
    /\ MarkerRows # {}
    /\ 1 < Min(MarkerRows)
    /\ Min(MarkerRows) < NRows(call.df)
    /\ NRows(ret.df) = Min(MarkerRows) - 1

\* The sum of the numeric cells of the value column of df over the rows at
\* the positions in S.
RECURSIVE SumOver(_, _)
SumOver(df, S) ==
    IF S = {} THEN Zero
    ELSE LET k == CHOOSE x \in S : TRUE
         IN  RatAdd(ValueCell(df, k), SumOver(df, S \ {k}))

\* The positions of the rows of the calculator's result whose line item
\* contains `label` and whose value is a number.
Matching(label) ==
    {k \in 1..NRows(ret.df) :
        CellHas(ItemCell(ret.df, k), label) /\ ValueCell(ret.df, k).kind = "num"}

te_sum == SumOver(ret.df, Matching("Energia Ativa Fornecida TE"))
tusd_sum == SumOver(ret.df, Matching("Energia Ativa Fornecida TUSD"))
cip_sum == SumOver(ret.df, Matching("CIP ILUM PUB PREF MUNICIPAL"))

\* x = y * 100 / z for rationals x, y, z with z # 0.
IsPercentOf(x, y, z) == x.num * y.den * z.num = y.num * 100 * z.den * x.den

\* C2: calculate_cip_percentage computes cip_sum / (te_sum + tusd_sum) * 100
\* when te_sum + tusd_sum is positive and 0 otherwise, the three sums being
\* those of the value column over the rows matching each label (0 when none
\* matches); it never fails on a division by zero.
C2_Percentage ==
    CalledCalc =>
        /\ ret.status = "ok"
        /\ ret.valor_te = te_sum
        /\ ret.valor_tusd = tusd_sum
        /\ ret.valor_cip = cip_sum
        /\ LET total == RatAdd(te_sum, tusd_sum)
           IN  IF total.num > 0
               THEN IsPercentOf(ret.percentual_cip, cip_sum, total)
               ELSE ret.percentual_cip = Zero

\* The example of the specification: 100, 50 and 15 give 10.
C2_Witness ==
    /\ CalledCalc
    /\ call.df.data = <<RowTE100, RowTUSD50, RowCIP15>>
    /\ ret.valor_total = Rat(150, 1)
    /\ ret.percentual_cip = Rat(10, 1)

\* C3: after calculate_cip_percentage the percentage field holds the
\* computed percentage in exactly the rows whose line item contains
\* "CIP ILUM PUB PREF MUNICIPAL" (any case) and is unset in every other row;
\* the number and order of the rows and every row's line item are unchanged.
C3_Stamping ==
    (CalledCalc /\ ret.status = "ok") =>
        /\ ret.df.columns = Append(call.df.columns, "percentual_cip")
        /\ ret.df.index = call.df.index
        /\ NRows(ret.df) = NRows(call.df)
        /\ \A k \in 1..NRows(call.df) :
              /\ Len(ret.df.data[k]) = Len(call.df.data[k]) + 1
              /\ ItemCell(ret.df, k) = ItemCell(call.df, k)
              /\ ret.df.data[k][ColPos(ret.df, "percentual_cip")] =
                    IF CellHas(ItemCell(call.df, k), "CIP ILUM PUB PREF MUNICIPAL")
                    THEN ret.percentual_cip
                    ELSE None

\* A call with a line of the CIP label and a line of another label, the
\* percentage being other than 0.
C3_Witness ==
    /\ CalledCalc
    /\ ret.status = "ok"
    /\ ret.percentual_cip # Zero
    /\ \E k \in 1..NRows(call.df) : CellHas(ItemCell(call.df, k), "CIP ILUM PUB PREF MUNICIPAL")
    /\ \E k \in 1..NRows(call.df) : ~CellHas(ItemCell(call.df, k), "CIP ILUM PUB PREF MUNICIPAL")

---------------------------------------------------------------------------
(* Local monetary format, as the specification describes it.               *)

\* Digits in groups of three separated by ".": d, dd or ddd, then .ddd ...
RECURSIVE Grouped(_)
Grouped(s) ==
    IF Len(s) <= 3 THEN s # "" /\ AllDigits(s)
    ELSE /\ Len(s) >= 5
         /\ Char(s, Len(s) - 3) = "."
         /\ AllDigits(SubSeq(s, Len(s) - 2, Len(s)))
         /\ Grouped(SubSeq(s, 1, Len(s) - 4))

IntegerPart(s) == (s # "" /\ AllDigits(s)) \/ Grouped(s)

\* The text without surrounding whitespace and without its trailing "-".
Unsigned(text) ==
    LET t == Strip(text)
    IN  IF t # "" /\ Char(t, Len(t)) = "-" THEN SubSeq(t, 1, Len(t) - 1) ELSE t

TrailingMinus(text) ==
    LET t == Strip(text) IN t # "" /\ Char(t, Len(t)) = "-"

Commas(s) == {k \in 1..Len(s) : Char(s, k) = ","}

\* digits with "." as thousands separator, at most one "," followed by the
\* decimals, an optional trailing "-", optional surrounding whitespace.
IsLocalFormat(text) ==
    LET b == Unsigned(text)
    IN  \/ Commas(b) = {} /\ IntegerPart(b)
        \/ /\ Cardinality(Commas(b)) = 1
           /\ LET p == CHOOSE k \in Commas(b) : TRUE
              IN  /\ IntegerPart(SubSeq(b, 1, p - 1))
                  /\ p < Len(b)
                  /\ AllDigits(SubSeq(b, p + 1, Len(b)))

\* The number a text in local format stands for: the thousands separators
\* removed, "," read as the decimal point, negated when it ends with "-".
LocalValue(text) ==
    LET b == Unsigned(text)
        p == IF Commas(b) = {} THEN Len(b) + 1 ELSE CHOOSE k \in Commas(b) : TRUE
        whole == Replace(SubSeq(b, 1, p - 1), ".", "")
        decimals == SubSeq(b, p + 1, Len(b))
        v == Rat(DigitsToInt(whole \o decimals), Pow10(Len(decimals)))
    IN  IF TrailingMinus(text) THEN RatNeg(v) ELSE v

\* C4: tratar_valores_monetarios converts every cell text in local format
\* to the number it stands for (thousands separators removed, "," as the
\* decimal point, negated exactly when the text ends with "-"), so that
\* "1.234,56" gives 1234.56, "105,47-" gives -105.47 and "0,00" gives 0.
C4_LocalFormat ==
    (CalledTratar /\ call.coluna = "Valor_(R$)") =>
        \A k \in 1..NRows(call.df) :
            IsLocalFormat(ValueCell(call.df, k).s) =>
                ValueCell(ret.df, k) = LocalValue(ValueCell(call.df, k).s)


\* A text that is a number in no format: it has no digit, or a character
\* other than digits, ".", ",", "-" and whitespace.
NoNumber(text) ==
    \/ \A k \in 1..Len(text) : ~IsDigit(Char(text, k))
    \/ \E k \in 1..Len(text) :
          ~IsDigit(Char(text, k)) /\ Char(text, k) \notin {".", ",", "-", " "}

\* C5: on a table that has the target column tratar_valores_monetarios never
\* raises and turns a cell whose text is no number into NaN (every cell of
\* the column ends as a number or NaN); in calculate_cip_percentage the NaN
\* cells are left out of te_sum, tusd_sum and cip_sum, which are the sums of
\* the numeric matching cells; the normalizer raises KeyError exactly when
\* the target column is absent.
C5_ErrorPolicy ==
    /\ CalledTratar =>
          /\ ret.status \in {"ok", "KeyError"}
          /\ ret.status = "KeyError" <=> ~HasCol(call.df, call.coluna)
          /\ ret.status = "ok" =>
                /\ NRows(ret.df) = NRows(call.df)
                /\ \A k \in 1..NRows(call.df) :
                      LET c == ColPos(call.df, call.coluna)
                      IN  /\ ret.df.data[k][c].kind \in {"num", "nan"}
                          /\ NoNumber(call.df.data[k][c].s) => ret.df.data[k][c] = NaN
    /\ CalledCalc =>
          /\ ret.status = "ok"
          /\ \A k \in 1..NRows(call.df) :
                NoNumber(ValueCell(call.df, k).s) => ValueCell(ret.df, k) = NaN
          /\ ret.valor_te.kind = "num" /\ ret.valor_te = te_sum
          /\ ret.valor_tusd.kind = "num" /\ ret.valor_tusd = tusd_sum
          /\ ret.valor_cip.kind = "num" /\ ret.valor_cip = cip_sum

\* A calculator call where one line of the TE label has a value that is no
\* number and another has 100: the sum is 100.
C5_Witness ==
    /\ CalledCalc
    /\ \E k \in 1..NRows(call.df) :
          /\ CellHas(ItemCell(call.df, k), "Energia Ativa Fornecida TE")
          /\ ValueCell(call.df, k) = Str("n/d")
          /\ ValueCell(ret.df, k) = NaN
    /\ \E k \in 1..NRows(call.df) : call.df.data[k] = RowTE100
    /\ ret.valor_te = Rat(100, 1)

---------------------------------------------------------------------------
(* The header normalizer, on the raw grid call.df.                         *)

\* No cell of the row is a missing value.
Populated(row) == \A c \in 1..Len(row) : row[c].kind # "nan"
\* Every cell of the row is a missing value.
AllMissing(row) == \A c \in 1..Len(row) : row[c].kind = "nan"

\* The same two notions when a cell holding the empty text counts as empty.
PopulatedText(row) == \A c \in 1..Len(row) : row[c].kind = "str" /\ row[c].s # ""
AllEmpty(row) == \A c \in 1..Len(row) : row[c].kind = "nan" \/ row[c] = Str("")

\* A cell of the row matches one of the noise patterns.
Noise(row) == RowHas(row, ";;;") \/ RowHas(row, "com tributos") \/ RowHas(row, "ICMS")

TenColumns == Len(call.df.columns) = 10

GridRows(S) == SubseqByPos(call.df.data, S)

\* C9 as claimed (on grids of ten columns): with a cell holding an empty
\* text counted as empty, the header row is the first row without an empty
\* cell and the output rows are the non-noise, not entirely empty rows after
\* it.
C9_EmptyTextIsEmpty ==
    (CalledClean /\ TenColumns /\ \E k \in 1..NRows(call.df) : PopulatedText(call.df.data[k])) =>
        LET h == Min({k \in 1..NRows(call.df) : PopulatedText(call.df.data[k])})
        IN  /\ ret.status = "ok"
            /\ ret.df.data = GridRows({k \in (h + 1)..NRows(call.df) :
                                  ~AllEmpty(call.df.data[k]) /\ ~Noise(call.df.data[k])})

\* C9: on a grid of ten columns, the rows whose cells are all missing are
\* dropped, the header row is the first remaining row without a missing
\* cell (a cell holding an empty text counts as populated), that row and
\* the rows above it are discarded, and the output rows are exactly the
\* non-noise rows after it, in order, labelled from 0.
C9_HeaderRow ==
    (CalledClean /\ TenColumns /\ \E k \in 1..NRows(call.df) : Populated(call.df.data[k])) =>
        LET h == Min({k \in 1..NRows(call.df) : Populated(call.df.data[k])})
        IN  /\ ret.status = "ok"
            /\ ret.df.data = GridRows({k \in (h + 1)..NRows(call.df) :
                                  ~AllMissing(call.df.data[k]) /\ ~Noise(call.df.data[k])})
            /\ ret.df.index = [k \in 1..NRows(ret.df) |-> k - 1]

\* A grid whose header row holds empty texts, with a row above it and a row
\* that stays below it.
C9_Witness ==
    /\ CalledClean
    /\ TenColumns
    /\ \E h \in 2..NRows(call.df) :
          /\ Populated(call.df.data[h])
          /\ ~PopulatedText(call.df.data[h])
          /\ \A k \in 1..(h - 1) : ~Populated(call.df.data[k])
          /\ h < NRows(call.df)
    /\ ret.status = "ok"
    /\ NRows(ret.df) >= 1

\* The texts of the first row of the grid without a missing cell.
DetectedHeader ==
    LET h == Min({k \in 1..NRows(call.df) : Populated(call.df.data[k])})
    IN  [c \in 1..Len(call.df.data[h]) |-> call.df.data[h][c].s]

CarriesValueField(row) == \E c \in 1..Len(row) : row[c] = "Valor_(R$)"

---------------------------------------------------------------------------
(* Properties of the per-file loop (Spec).  files[k] = k, so a file and its *)
(* position in the list are the same number.                               *)

Started(f) == "get_table_data" \in stages[f]
Skipped(f) == tables[f] = None /\ Started(f)
Ended == pc \in {"done", "raised"}

CleanupStages ==
    {"clean_and_correct_header", "filter_until_subtotal", "calculate_cip_percentage"}
AllStages == {"get_table_data", "save_csv"} \cup CleanupStages

\* The grid has no row free of missing values (an empty grid has none).
NoFullRow(grid) == \A k \in 1..NRows(grid) : ~Populated(grid.data[k])

\* C7: when the grid of a file has no fully-populated row (no row without a
\* missing cell; the empty grid included), clean_and_correct_header fails
\* with IndexError and returns no table; start() runs no trimming, no
\* metric calculation and no CSV write for that file, and the error leaves
\* start() uncaught, which ends the run.
C7_HeaderFailure ==
    \A f \in FileIds :
        (/\ tables[f] # None
         /\ NoFullRow(tables[f])
         /\ "clean_and_correct_header" \in stages[f]) =>
            /\ pc = "raised"
            /\ error = "IndexError"
            /\ files[i] = f
            /\ corrected_df = None
            /\ filtered_df = None
            /\ stages[f] = {"get_table_data", "clean_and_correct_header"}
            /\ csv[f] = None
            /\ \A g \in FileIds : g > f => stages[g] = {}

\* The run ended by the IndexError of a grid that has rows, none of them
\* fully populated, with files still to come.
C7_Witness ==
    /\ pc = "raised"
    /\ error = "IndexError"
    /\ NRows(tables[files[i]]) >= 1
    /\ NoFullRow(tables[files[i]])
    /\ i < Len(files)

\* C8 as claimed: once the run has ended, every file after a file without
\* a table has been processed.
C8_LaterFilesProcessed ==
    Ended => \A f \in FileIds : Skipped(f) => \A g \in FileIds : g > f => Started(g)

WarningLogged(f) ==
    \E k \in 1..Len(log) : log[k].level = "warning" /\ log[k].file = f

\* C8: a file without a table gets a warning, none of the cleanup stages
\* and no CSV, and the loop goes on with the next file: once the run has
\* ended, every later file has been processed up to the first one, if any,
\* whose own stage raised (which ends the run); files are handled one at a
\* time, in order; a CSV exists for exactly the files whose table was found
\* and whose stages all completed.
C8_SkipAndContinue ==
    /\ \A f \in FileIds :
          /\ Skipped(f) =>
                /\ WarningLogged(f)
                /\ stages[f] = {"get_table_data"}
                /\ csv[f] = None
          /\ csv[f] # None <=> (tables[f] # None /\ stages[f] = AllStages)
          /\ f > i => stages[f] = {} /\ csv[f] = None
          /\ f < i => \/ Skipped(f) /\ stages[f] = {"get_table_data"}
                      \/ stages[f] = AllStages /\ csv[f] # None
    /\ pc = "done" => \A f \in FileIds : Started(f)
    /\ Ended =>
          \A f \in FileIds : Skipped(f) =>
              \A g \in FileIds : g > f =>
                  \/ Started(g)
                  \/ \E h \in (f + 1)..(g - 1) : pc = "raised" /\ i = h

\* The first file has no table, the second is written and the run ends
\* normally.
C8_Witness ==
    /\ pc = "done"
    /\ tables[1] = None
    /\ WarningLogged(1)
    /\ csv[1] = None
    /\ csv[2] # None

---------------------------------------------------------------------------
(* The order of the stages of start() (Spec): the trimming comes before    *)
(* the calculator.                                                         *)

\* start() has just returned from writing the CSV of the file before
\* position i; its locals are still those of that file.
JustWritten == pc = "main" /\ i > 1 /\ csv[files[i - 1]] # None

\* The number of rows of the table handed to the trimmer (corrected_df)
\* that come strictly before its first marker row: all of them when it has
\* no marker row.
BeforeMarker ==
    LET markers == {k \in 1..NRows(corrected_df) :
                       RowHas(corrected_df.data[k], "Subtotal Faturamento")}
    IN  IF markers = {} THEN NRows(corrected_df) ELSE Min(markers) - 1

\* The positions of the rows of df whose line item contains `label` and
\* whose value is a number.
MatchingIn(df, label) ==
    {k \in 1..NRows(df) :
        CellHas(ItemCell(df, k), label) /\ ValueCell(df, k).kind = "num"}

\* A text in local format without thousands separators.
PlainAmount(cell) ==
    cell.kind = "str" /\ IsLocalFormat(cell.s) /\ ~Contains(cell.s, ".")

\* C11: start() trims before it calculates: when the CSV of a file is
\* written, it holds exactly the rows strictly before the first "Subtotal
\* Faturamento" row of the table handed to the trimmer, so a TE, TUSD or CIP
\* row at or after the marker row is absent from it; te_sum, tusd_sum and
\* cip_sum are the sums over the rows of the CSV alone, so such a row
\* contributes nothing; and when no CIP row comes before the marker, no row
\* of the CSV carries a percentage.
C11_TrimBeforeMetrics ==
    JustWritten =>
        LET rows == corrected_df.data
            n == BeforeMarker
            out == csv[files[i - 1]]
            v == valores[files[i - 1]]
            col == ColPos(corrected_df, "Valor_(R$)")
        IN  /\ NRows(out) = n
            /\ out = filtered_df
            /\ \A k \in 1..n :
                  /\ ~RowHas(out.data[k], "Subtotal Faturamento")
                  /\ \A c \in 1..Len(rows[k]) : c # col => out.data[k][c] = rows[k][c]
                  /\ PlainAmount(rows[k][col]) =>
                        out.data[k][col] = LocalValue(rows[k][col].s)
            /\ v.valor_te = SumOver(out, MatchingIn(out, "Energia Ativa Fornecida TE"))
            /\ v.valor_tusd = SumOver(out, MatchingIn(out, "Energia Ativa Fornecida TUSD"))
            /\ v.valor_cip = SumOver(out, MatchingIn(out, "CIP ILUM PUB PREF MUNICIPAL"))
            /\ (\A k \in 1..n : ~CellHas(ItemCell(corrected_df, k), "CIP ILUM PUB PREF MUNICIPAL")) =>
                  \A k \in 1..NRows(out) :
                      out.data[k][ColPos(out, "percentual_cip")] = None

\* A written file whose only CIP row, and one of its TE rows, come after
\* the marker row: the sums are those of the rows before it (100 and 50, no
\* CIP) and the CSV carries no percentage.
C11_Witness ==
    /\ JustWritten
    /\ BeforeMarker = 2
    /\ \E k \in 4..NRows(corrected_df) :
          CellHas(ItemCell(corrected_df, k), "CIP ILUM PUB PREF MUNICIPAL")
    /\ \E k \in 4..NRows(corrected_df) :
          CellHas(ItemCell(corrected_df, k), "Energia Ativa Fornecida TE")
    /\ \A k \in 1..2 :
          ~CellHas(ItemCell(corrected_df, k), "CIP ILUM PUB PREF MUNICIPAL")
    /\ NRows(csv[files[i - 1]]) = 2
    /\ valores[files[i - 1]].valor_te = Rat(100, 1)
    /\ valores[files[i - 1]].valor_tusd = Rat(50, 1)
    /\ valores[files[i - 1]].valor_cip = Zero
    /\ \A k \in 1..2 :
          csv[files[i - 1]].data[k][ColPos(csv[files[i - 1]], "percentual_cip")] = None

=============================================================================
